---- MODULE Spec2Model ----
(***************************************************************************)
(* HtmlTemplateLanguageService (src/html-template-language-service.ts):    *)
(* the facade that serves completions, quick info, formatting, outlining   *)
(* and diagnostics for an HTML fragment embedded in a template literal,    *)
(* with its single-slot CompletionsCache.                                  *)
(*                                                                         *)
(* A string is a sequence of one-character strings.  A value that may be   *)
(* undefined is either Undefined or a record; a value of a union type      *)
(* (string | MarkupContent) carries its type in a field.                   *)
(***************************************************************************)
EXTENDS Integers, Sequences, FiniteSets, TLC

VARIABLES
    fileName,                   \* host: the file of the fragment being edited
    text,                       \* host: the fragment's current text
    position,                   \* host: the cursor, a (line, character) pair
    cachedCompletionsFile,      \* CompletionsCache._cachedCompletionsFile
    cachedCompletionsPosition,  \* CompletionsCache._cachedCompletionsPosition
    cachedCompletionsContent,   \* CompletionsCache._cachedCompletionsContent
    completions,                \* CompletionsCache._completions
    cssLanguageServiceCreated,  \* whether _cssLanguageService has been created
    call,                       \* the last facade call: its arguments, the engine
                                \* invocations it made, and what it returned
    lastRequest,                \* history: key and list of the last completion request
    lastComputation             \* history: key and list of the last completion computation

cacheVars == <<cachedCompletionsFile, cachedCompletionsPosition,
               cachedCompletionsContent, completions>>
hostVars == <<fileName, text, position>>
historyVars == <<lastRequest, lastComputation>>
vars == <<fileName, text, position, cachedCompletionsFile, cachedCompletionsPosition,
          cachedCompletionsContent, completions, cssLanguageServiceCreated, call,
          lastRequest, lastComputation>>

----------------------------------------------------------------------------
(* Bounds *)

\* longest fragment the host types in the cache specification
MaxTextLen == 1
\* longest fragment drawn in the formatting, quick-info and kind specifications
MaxFragmentLen == 3

----------------------------------------------------------------------------
(* Values *)

Undefined == [type |-> "undefined"]
Str(s) == [type |-> "string", value |-> s]
Markup(v) == [type |-> "markup", kind |-> "markdown", value |-> v]

FileNames == {"a.ts", "b.ts"}

\* "h": markup, "c": inside a style block, "j": inside a script block
RegionChars == {"h", "c", "j"}
WhitespaceChars == {"\n", " "}
\* the tag of the hover artifact, one lexeme of a string, in either case
StyleTags == {"<style>", "<STYLE>"}

RECURSIVE SeqsUpTo(_, _)
SeqsUpTo(S, n) ==
    IF n = 0 THEN {<<>>}
    ELSE LET shorter == SeqsUpTo(S, n - 1)
         IN  shorter \cup {Append(s, c) : s \in {t \in shorter : Len(t) = n - 1}, c \in S}

RECURSIVE Repeat(_, _)
Repeat(c, n) == IF n = 0 THEN <<>> ELSE <<c>> \o Repeat(c, n - 1)

\* /\s/ on the characters of the model
IsWhitespace(c) == c \in WhitespaceChars

----------------------------------------------------------------------------
(* TemplateContext: the fragment and its coordinate converters *)

Context(f, t) == [fileName |-> f, text |-> t]

NewlinesBefore(t, o) == Cardinality({i \in 1..o : t[i] = "\n"})

LastNewlineBefore(t, o) ==
    LET nl == {i \in 1..o : t[i] = "\n"}
    IN  IF nl = {} THEN 0 ELSE CHOOSE i \in nl : \A j \in nl : j <= i

toPosition(context, offset) ==
    [line |-> NewlinesBefore(context.text, offset),
     character |-> offset - LastNewlineBefore(context.text, offset)]

\* the offset at which line `line` starts: just after its line-th newline
LineStart(t, line) ==
    IF line = 0 THEN 0
    ELSE LET at == {i \in 1..Len(t) : t[i] = "\n" /\ NewlinesBefore(t, i) = line}
         IN  IF at = {} THEN Len(t) ELSE CHOOSE i \in at : TRUE

toOffset(context, p) == LineStart(context.text, p.line) + p.character

Offsets(context) == 0..Len(context.text)
Positions(context) == {toPosition(context, o) : o \in Offsets(context)}

----------------------------------------------------------------------------
(* Virtual documents *)

\* contents.split(/n/g).length: the pieces between the letters n
SplitOnLetterN(contents) == Cardinality({i \in 1..Len(contents) : contents[i] = "n"}) + 1

\* a document that keeps the text of the last completion computation
createVirtualDocumentRetained(context) ==
    LET contents == IF cachedCompletionsContent # Undefined
                    THEN cachedCompletionsContent.value ELSE context.text
    IN  [uri |-> "untitled://embedded.html",
         languageId |-> "html",
         version |-> 1,
         getText |-> contents,
         positionAt |-> [captured |-> context],
         offsetAt |-> [captured |-> context],
         lineCount |-> SplitOnLetterN(contents) + 1]

createVirtualDocument(context) ==
    LET contents == context.text
    IN  [uri |-> "untitled://embedded.html",
         languageId |-> "html",
         version |-> 1,
         getText |-> contents,
         positionAt |-> [captured |-> context],
         offsetAt |-> [captured |-> context],
         lineCount |-> SplitOnLetterN(contents) + 1]

createCssVirtualDocument(context) ==
    LET contents == context.text
    IN  [uri |-> "untitled://embedded.css",
         languageId |-> "css",
         version |-> 1,
         getText |-> contents,
         positionAt |-> [captured |-> context],
         offsetAt |-> [captured |-> context],
         lineCount |-> SplitOnLetterN(contents) + 1]

\* document.positionAt(offset) and document.offsetAt(p): each closure runs the
\* converter of the context it captured
positionAt(document, offset) == toPosition(document.positionAt.captured, offset)
offsetAt(document, p) == toOffset(document.offsetAt.captured, p)

----------------------------------------------------------------------------
(* Region classifier (embeddedSupport) *)

CharLanguage(c) ==
    IF c = "c" THEN "css" ELSE IF c = "j" THEN "javascript" ELSE "html"

\* The language of the region that holds the position: a region reaches to the
\* cursor just after its last character; a position in no region is html.
getLanguageAtPosition(document, p) ==
    LET t == document.getText
        o == offsetAt(document, p)
    IN  IF 1 <= o /\ o <= Len(t) THEN CharLanguage(t[o])
        ELSE IF o = 0 /\ Len(t) >= 1 THEN CharLanguage(t[1])
        ELSE "html"

----------------------------------------------------------------------------
(* The HTML and CSS engines' completions: deterministic in (text, position) *)

\* a label that names the engine, the text and the offset it was computed for
SentinelLabel(engine, t, o) == <<engine, ":">> \o t \o <<"@">> \o Repeat("|", o)

\* htmlLanguageService.doComplete: nothing for an empty document
htmlDoComplete(document, p) ==
    LET t == document.getText
        o == offsetAt(document, p)
    IN  IF Len(t) = 0 THEN Undefined
        ELSE [isIncomplete |-> FALSE,
              items |-> << [label |-> SentinelLabel("H", t, o),
                            kind |-> "Property",
                            detail |-> Str(<<"d">>),
                            documentation |-> Markup(<<"m">>)],
                           [label |-> <<"d", "i", "v">>,
                            kind |-> "undefined",
                            detail |-> Undefined,
                            documentation |-> Undefined] >>]

\* cssLanguageService.doComplete: nothing at the start of the document
cssDoComplete(document, p) ==
    LET t == document.getText
        o == offsetAt(document, p)
    IN  IF o = 0 THEN Undefined
        ELSE [isIncomplete |-> TRUE,
              items |-> << [label |-> SentinelLabel("C", t, o),
                            kind |-> "Color",
                            detail |-> Undefined,
                            documentation |-> Str(<<"c">>)] >>]

----------------------------------------------------------------------------
(* CompletionsCache *)

emptyCompletionList == [isIncomplete |-> FALSE, items |-> <<>>]

arePositionsEqual(left, right) ==
    left.line = right.line /\ left.character = right.character

getCachedIgnoringContent(context, p) ==
    IF /\ completions # Undefined
       /\ Str(context.fileName) = cachedCompletionsFile
       /\ cachedCompletionsPosition # Undefined
       /\ arePositionsEqual(p, cachedCompletionsPosition)
    THEN completions
    ELSE Undefined

getCachedIgnoringPosition(context, p) ==
    IF /\ completions # Undefined
       /\ Str(context.fileName) = cachedCompletionsFile
       /\ Str(context.text) = cachedCompletionsContent
    THEN completions
    ELSE Undefined

getCached(context, p) ==
    IF /\ completions # Undefined
       /\ Str(context.fileName) = cachedCompletionsFile
       /\ cachedCompletionsPosition # Undefined
       /\ arePositionsEqual(p, cachedCompletionsPosition)
       /\ Str(context.text) = cachedCompletionsContent
    THEN completions
    ELSE Undefined

updateCachedUnlessEmpty(context, p, list) ==
    IF list.items = <<>> THEN UNCHANGED cacheVars
    ELSE /\ cachedCompletionsFile' = Str(context.fileName)
         /\ cachedCompletionsPosition' = p
         /\ cachedCompletionsContent' = Str(context.text)
         /\ completions' = list

updateCached(context, p, list) ==
    /\ cachedCompletionsFile' = Str(context.fileName)
    /\ cachedCompletionsPosition' = p
    /\ cachedCompletionsContent' = Str(context.text)
    /\ completions' = list

----------------------------------------------------------------------------
(* Engine invocations, as the call records them *)

Invocation(service, method, document) ==
    [service |-> service, method |-> method, document |-> document]

\* the styled-template service is handed the context itself, not a document
StyledInvocation(method, context) ==
    [service |-> "styledLanguageService", method |-> method, context |-> context]

----------------------------------------------------------------------------
(* getCompletionItems *)

OrEmpty(list) == IF list = Undefined THEN emptyCompletionList ELSE list

\* the switch without its default arm: whatever is not css goes to the HTML engine
computeCompletionItemsHtmlByDefault(context, p) ==
    LET htmlDoc == createVirtualDocument(context)
        classify == Invocation("getDocumentRegions", "getLanguageAtPosition", htmlDoc)
        languageId == getLanguageAtPosition(htmlDoc, p)
    IN  IF languageId = "css"
        THEN LET cssDoc == createCssVirtualDocument(context)
             IN  [completions |-> OrEmpty(cssDoComplete(cssDoc, p)),
                  engineCalls |-> << classify,
                                     Invocation("cssLanguageService", "parseStylesheet", cssDoc),
                                     Invocation("cssLanguageService", "doComplete", cssDoc) >>,
                  cached |-> FALSE,
                  usesCss |-> TRUE]
        ELSE [completions |-> OrEmpty(htmlDoComplete(htmlDoc, p)),
              engineCalls |-> << classify,
                                 Invocation("htmlLanguageService", "parseHTMLDocument", htmlDoc),
                                 Invocation("htmlLanguageService", "doComplete", htmlDoc) >>,
              cached |-> FALSE,
              usesCss |-> FALSE]

\* the part of getCompletionItems after a cache miss
computeCompletionItems(context, p) ==
    LET htmlDoc == createVirtualDocument(context)
        classify == Invocation("getDocumentRegions", "getLanguageAtPosition", htmlDoc)
        languageId == getLanguageAtPosition(htmlDoc, p)
    IN  CASE languageId = "html" ->
               [completions |-> OrEmpty(htmlDoComplete(htmlDoc, p)),
                engineCalls |-> << classify,
                                   Invocation("htmlLanguageService", "parseHTMLDocument", htmlDoc),
                                   Invocation("htmlLanguageService", "doComplete", htmlDoc) >>,
                cached |-> FALSE,
                usesCss |-> FALSE]
          [] languageId = "css" ->
               LET cssDoc == createCssVirtualDocument(context)
               IN  [completions |-> OrEmpty(cssDoComplete(cssDoc, p)),
                    engineCalls |-> << classify,
                                       Invocation("cssLanguageService", "parseStylesheet", cssDoc),
                                       Invocation("cssLanguageService", "doComplete", cssDoc) >>,
                    cached |-> FALSE,
                    usesCss |-> TRUE]
          [] OTHER ->
               [completions |-> emptyCompletionList,
                engineCalls |-> << classify >>,
                cached |-> FALSE,
                usesCss |-> FALSE]

getCompletionItems(context, p) ==
    LET cached == getCached(context, p)
    IN  IF cached # Undefined
        THEN [completions |-> cached, engineCalls |-> <<>>, cached |-> TRUE, usesCss |-> FALSE]
        ELSE computeCompletionItems(context, p)

----------------------------------------------------------------------------
(* Result translators: completions *)

\* item.kind ? ... : unknown -- an absent kind and the number 0 are falsy
IsTruthyKind(kind) == kind \notin {"undefined", "0"}

translateionCompletionItemKindWithoutColor(kind) ==
    CASE kind = "Method" -> "memberFunctionElement"
      [] kind = "Function" -> "functionElement"
      [] kind = "Constructor" -> "constructorImplementationElement"
      [] kind \in {"Field", "Variable"} -> "variableElement"
      [] kind = "Class" -> "classElement"
      [] kind = "Interface" -> "interfaceElement"
      [] kind = "Module" -> "moduleElement"
      [] kind = "Property" -> "memberVariableElement"
      [] kind \in {"Unit", "Value"} -> "constElement"
      [] kind = "Enum" -> "enumElement"
      [] kind = "Keyword" -> "keyword"
      [] kind = "Reference" -> "alias"
      [] kind = "File" -> "moduleElement"
      [] OTHER -> "unknown"

translateionCompletionItemKind(kind) ==
    CASE kind = "Method" -> "memberFunctionElement"
      [] kind = "Function" -> "functionElement"
      [] kind = "Constructor" -> "constructorImplementationElement"
      [] kind \in {"Field", "Variable"} -> "variableElement"
      [] kind = "Class" -> "classElement"
      [] kind = "Interface" -> "interfaceElement"
      [] kind = "Module" -> "moduleElement"
      [] kind = "Property" -> "memberVariableElement"
      [] kind \in {"Unit", "Value"} -> "constElement"
      [] kind = "Enum" -> "enumElement"
      [] kind = "Keyword" -> "keyword"
      [] kind = "Color" -> "constElement"
      [] kind = "Reference" -> "alias"
      [] kind = "File" -> "moduleElement"
      [] kind \in {"Snippet", "Text"} -> "unknown"
      [] OTHER -> "unknown"

\* !text: undefined and the empty string are falsy, an object is not
toDisplayParts(t) ==
    IF t = Undefined \/ t = Str(<<>>) THEN <<>>
    ELSE << [kind |-> "text", text |-> t.value] >>

translateCompetionEntry(item) ==
    [name |-> item.label,
     kindModifiers |-> "",
     kind |-> IF IsTruthyKind(item.kind)
              THEN translateionCompletionItemKind(item.kind) ELSE "unknown",
     sortText |-> "0"]

translateCompletionItemsToCompletionEntryDetails(item) ==
    [name |-> item.label,
     kindModifiers |-> "declare",
     kind |-> IF IsTruthyKind(item.kind)
              THEN translateionCompletionItemKind(item.kind) ELSE "unknown",
     displayParts |-> toDisplayParts(item.detail),
     documentation |-> toDisplayParts(item.documentation),
     tags |-> <<>>]

translateCompletionItemsToCompletionInfo(list) ==
    [isGlobalCompletion |-> FALSE,
     isMemberCompletion |-> FALSE,
     isNewIdentifierLocation |-> FALSE,
     entries |-> [i \in 1..Len(list.items) |-> translateCompetionEntry(list.items[i])]]

\* items.find(x => x.label === name): the first item with the label, if any
FindItem(items, name) ==
    LET at == {i \in 1..Len(items) : items[i].label = name}
    IN  IF at = {} THEN Undefined
        ELSE items[CHOOSE i \in at : \A j \in at : i <= j]

\* the details of the first entry when the name is no entry's
entryDetailsOfFirstWhenAbsent(list, name) ==
    LET item == FindItem(list.items, name)
    IN  IF item = Undefined
        THEN IF list.items # <<>>
             THEN translateCompletionItemsToCompletionEntryDetails(list.items[1])
             ELSE [name |-> name,
                   kind |-> "unknown",
                   kindModifiers |-> "",
                   tags |-> <<>>,
                   displayParts |-> toDisplayParts(Str(name)),
                   documentation |-> <<>>]
        ELSE translateCompletionItemsToCompletionEntryDetails(item)

\* the part of getCompletionEntryDetails after getCompletionItems
entryDetailsOf(list, name) ==
    LET item == FindItem(list.items, name)
    IN  IF item = Undefined
        THEN [name |-> name,
              kind |-> "unknown",
              kindModifiers |-> "",
              tags |-> <<>>,
              displayParts |-> toDisplayParts(Str(name)),
              documentation |-> <<>>]
        ELSE translateCompletionItemsToCompletionEntryDetails(item)

----------------------------------------------------------------------------
(* The state machine: the host edits the fragment and calls the facade *)

Idle == [op |-> "idle"]

Key(context, p) == [file |-> context.fileName, position |-> p, content |-> context.text]

CurrentContext == Context(fileName, text)

Init ==
    /\ fileName = "a.ts"
    /\ text = <<>>
    /\ position = [line |-> 0, character |-> 0]
    /\ cachedCompletionsFile = Undefined
    /\ cachedCompletionsPosition = Undefined
    /\ cachedCompletionsContent = Undefined
    /\ completions = Undefined
    /\ cssLanguageServiceCreated = FALSE
    /\ call = Idle
    /\ lastRequest = Undefined
    /\ lastComputation = Undefined

facadeUnchanged == UNCHANGED <<cacheVars, cssLanguageServiceCreated, historyVars>>

\* the host types a character at the cursor
HostInsertChar ==
    \E c \in RegionChars :
        LET o == toOffset(CurrentContext, position)
            t == SubSeq(text, 1, o) \o <<c>> \o SubSeq(text, o + 1, Len(text))
        IN  /\ Len(text) < MaxTextLen
            /\ text' = t
            /\ position' = toPosition(Context(fileName, t), o + 1)
            /\ call' = Idle
            /\ UNCHANGED fileName
            /\ facadeUnchanged

\* the host deletes the character before the cursor
HostDeleteChar ==
    LET o == toOffset(CurrentContext, position)
        t == SubSeq(text, 1, o - 1) \o SubSeq(text, o + 1, Len(text))
    IN  /\ o >= 1
        /\ text' = t
        /\ position' = toPosition(Context(fileName, t), o - 1)
        /\ call' = Idle
        /\ UNCHANGED fileName
        /\ facadeUnchanged

HostMoveCursor ==
    \E p \in Positions(CurrentContext) \ {position} :
        /\ position' = p
        /\ call' = Idle
        /\ UNCHANGED <<fileName, text>>
        /\ facadeUnchanged

\* the host turns to the same fragment text in another file
HostSwitchFile ==
    \E f \in FileNames \ {fileName} :
        /\ fileName' = f
        /\ call' = Idle
        /\ UNCHANGED <<text, position>>
        /\ facadeUnchanged

\* what getCompletionItems leaves behind: the cache and the lazily created css service
completionItemsEffect(r, context, p) ==
    /\ IF r.cached THEN UNCHANGED cacheVars ELSE updateCached(context, p, r.completions)
    /\ cssLanguageServiceCreated' = (cssLanguageServiceCreated \/ r.usesCss)
    /\ lastRequest' = [key |-> Key(context, p), list |-> r.completions]
    /\ lastComputation' = IF r.cached THEN lastComputation
                          ELSE [key |-> Key(context, p), list |-> r.completions]

GetCompletionsAtPosition ==
    LET context == CurrentContext
        r == getCompletionItems(context, position)
    IN  /\ completionItemsEffect(r, context, position)
        /\ call' = [op |-> "getCompletionsAtPosition",
                    previous |-> lastRequest,
                    engineCalls |-> r.engineCalls,
                    list |-> r.completions,
                    result |-> translateCompletionItemsToCompletionInfo(r.completions)]
        /\ UNCHANGED hostVars

\* the names a host asks details for: an entry it was given, a name that is no
\* entry, the empty name
RequestedNames(list) ==
    {<<"?">>, <<>>} \cup {list.items[i].label : i \in 1..Len(list.items)}

GetCompletionEntryDetails ==
    LET context == CurrentContext
        r == getCompletionItems(context, position)
    IN  \E name \in RequestedNames(r.completions) :
            /\ completionItemsEffect(r, context, position)
            /\ call' = [op |-> "getCompletionEntryDetails",
                        name |-> name,
                        previous |-> lastRequest,
                        engineCalls |-> r.engineCalls,
                        list |-> r.completions,
                        result |-> entryDetailsOf(r.completions, name)]
            /\ UNCHANGED hostVars

----------------------------------------------------------------------------
(* Quick info *)

StyleValue == <<"<style>", "\n", " ", " ", "r">>
InnerStyleValue == <<"r", "<STYLE>", "\n", "\n", "r">>
PlainValue == <<"r">>

HoverContents ==
    {Str(<<"t">>), Markup(StyleValue), Markup(PlainValue),
     [type |-> "array", parts |-> <<Markup(InnerStyleValue), Str(<<"t">>)>>]}

\* htmlLanguageService.doHover: nothing, or, in a document that is not empty,
\* contents with or without the range of the element under the cursor
htmlDoHover(document, p, contents) ==
    LET o == offsetAt(document, p)
        n == Len(document.getText)
        ranges == {[start |-> positionAt(document, a), end |-> positionAt(document, b)] :
                       a \in 0..o, b \in o..n}
    IN  IF n = 0 THEN {Undefined}
        ELSE {Undefined} \cup
             {[contents |-> c, range |-> r] : c \in contents, r \in ranges \cup {Undefined}}

\* styledLanguageService.getQuickInfoAtPosition: nothing, or a quick info of its own
styledGetQuickInfoAtPosition(context, p) ==
    {Undefined} \cup
    {[kind |-> "unknown",
      kindModifiers |-> "",
      textSpan |-> [start |-> toOffset(context, p), length |-> 1],
      displayParts |-> << [kind |-> "unknown", text |-> v] >>,
      documentation |-> <<>>,
      tags |-> <<>>] : v \in {StyleValue, PlainValue}}

RECURSIVE SkipWhitespace(_, _)
SkipWhitespace(v, i) ==
    IF i <= Len(v) /\ IsWhitespace(v[i]) THEN SkipWhitespace(v, i + 1) ELSE i

\* value.replace(/(<style>\n)\s+/gi, '') from index i on
RECURSIVE replaceStyleDeclarationFrom(_, _)
replaceStyleDeclarationFrom(v, i) ==
    IF i > Len(v) THEN <<>>
    ELSE IF /\ v[i] \in StyleTags
            /\ i + 2 <= Len(v)
            /\ v[i + 1] = "\n"
            /\ IsWhitespace(v[i + 2])
         THEN replaceStyleDeclarationFrom(v, SkipWhitespace(v, i + 2))
         ELSE <<v[i]>> \o replaceStyleDeclarationFrom(v, i + 1)

removeStyleDeclaration(v) == replaceStyleDeclarationFrom(v, 1)

RECURSIVE convertPart(_, _)
RECURSIVE convertParts(_, _)
convertPart(hoverContents, languageId) ==
    IF hoverContents.type = "string"
    THEN [header |-> <<>>, docs |-> << [kind |-> "unknown", text |-> hoverContents.value] >>]
    ELSE IF hoverContents.type = "array"
    THEN convertParts(hoverContents.parts, languageId)
    ELSE IF languageId = "css"
    THEN [header |-> << [kind |-> "unknown", text |-> removeStyleDeclaration(hoverContents.value)] >>,
          docs |-> <<>>]
    ELSE [header |-> << [kind |-> "unknown", text |-> hoverContents.value] >>, docs |-> <<>>]

\* hoverContents.forEach(convertPart)
convertParts(parts, languageId) ==
    IF parts = <<>> THEN [header |-> <<>>, docs |-> <<>>]
    ELSE LET first == convertPart(Head(parts), languageId)
             rest == convertParts(Tail(parts), languageId)
         IN  [header |-> first.header \o rest.header, docs |-> first.docs \o rest.docs]

translateHoverSpanAtPosition(hover, p, context, languageId) ==
    LET parts == convertPart(hover.contents, languageId)
        start == toOffset(context, p)
    IN  [kind |-> "string",
         kindModifiers |-> "",
         textSpan |-> [start |-> start, length |-> 1],
         displayParts |-> parts.header,
         documentation |-> parts.docs,
         tags |-> <<>>]

translateHover(hover, p, context, languageId) ==
    LET parts == convertPart(hover.contents, languageId)
        start == toOffset(context, IF hover.range # Undefined THEN hover.range.start ELSE p)
    IN  [kind |-> "string",
         kindModifiers |-> "",
         textSpan |-> [start |-> start,
                       length |-> IF hover.range # Undefined
                                  THEN toOffset(context, hover.range.end) - start
                                  ELSE 1],
         displayParts |-> parts.header,
         documentation |-> parts.docs,
         tags |-> <<>>]

\* every return of getQuickInfoAtPosition, one for each answer of the engine
\* asked; `contents` are the hover contents the HTML engine has to give
getQuickInfoAtPosition(context, p, contents) ==
    LET htmlDoc == createVirtualDocument(context)
        classify == Invocation("getDocumentRegions", "getLanguageAtPosition", htmlDoc)
        languageId == getLanguageAtPosition(htmlDoc, p)
    IN  CASE languageId = "html" ->
               {[op |-> "getQuickInfoAtPosition",
                 languageId |-> languageId,
                 engineCalls |-> << classify,
                     Invocation("htmlLanguageService", "parseHTMLDocument", htmlDoc),
                     Invocation("htmlLanguageService", "doHover", htmlDoc) >>,
                 answer |-> hover,
                 result |-> IF hover # Undefined
                            THEN translateHover(hover, p, context, languageId)
                            ELSE Undefined] : hover \in htmlDoHover(htmlDoc, p, contents)}
          [] languageId = "css" ->
               {[op |-> "getQuickInfoAtPosition",
                 languageId |-> languageId,
                 engineCalls |-> << classify,
                     StyledInvocation("getQuickInfoAtPosition", context) >>,
                 answer |-> info,
                 result |-> info] : info \in styledGetQuickInfoAtPosition(context, p)}
          [] OTHER ->
               {[op |-> "getQuickInfoAtPosition",
                 languageId |-> languageId,
                 engineCalls |-> << classify >>,
                 answer |-> Undefined,
                 result |-> Undefined]}

\* quick info at the cursor, the HTML engine describing an element in one block
GetQuickInfoAtPosition ==
    /\ call' \in getQuickInfoAtPosition(CurrentContext, position, {Markup(StyleValue)})
    /\ UNCHANGED hostVars
    /\ facadeUnchanged

\* quick info at the cursor, the HTML engine giving contents of every shape
GetQuickInfoOfAnyShape ==
    /\ call' \in getQuickInfoAtPosition(CurrentContext, position, HoverContents)
    /\ UNCHANGED hostVars
    /\ facadeUnchanged

----------------------------------------------------------------------------
(* Formatting *)

\* context.text.match(/^\s*\n/): \s* takes the whole whitespace prefix and gives
\* characters back until a newline follows; the length matched, 0 for no match
matchLeading(t) ==
    LET w == SkipWhitespace(t, 1) - 1
        ends == {k \in 0..w : k + 1 <= Len(t) /\ t[k + 1] = "\n"}
    IN  IF ends = {} THEN 0
        ELSE (CHOOSE k \in ends : \A j \in ends : j <= k) + 1

\* context.text.match(/\n\s*$/): the first newline with only whitespace after it;
\* the length matched, 0 for no match
matchTrailing(t) ==
    LET starts == {i \in 1..Len(t) : t[i] = "\n" /\ SkipWhitespace(t, i + 1) = Len(t) + 1}
    IN  IF starts = {} THEN 0
        ELSE Len(t) - (CHOOSE i \in starts : \A j \in starts : i <= j) + 1

toVsRange(context, start, end) ==
    [start |-> toPosition(context, start), end |-> toPosition(context, end)]

toTsSpan(context, range) ==
    LET editStart == toOffset(context, range.start)
        editEnd == toOffset(context, range.end)
    IN  [start |-> editStart, length |-> editEnd - editStart]

EditorSettings ==
    {[tabSize |-> 4, convertTabsToSpaces |-> TRUE],
     [tabSize |-> 2, convertTabsToSpaces |-> FALSE]}

formatOptions(settings) ==
    [tabSize |-> settings.tabSize,
     insertSpaces |-> settings.convertTabsToSpaces,
     wrapLineLength |-> 120,
     unformatted |-> "",
     contentUnformatted |-> "pre,code,textarea",
     indentInnerHtml |-> FALSE,
     preserveNewLines |-> TRUE,
     maxPreserveNewLines |-> "null",
     indentHandlebars |-> FALSE,
     endWithNewline |-> FALSE,
     extraLiners |-> "head, body, /html",
     wrapAttributes |-> "auto"]

\* htmlLanguageService.format: one edit that rewrites the range it was given
htmlFormat(document, range, options) ==
    << [range |-> range, newText |-> Repeat(" ", options.tabSize) \o <<"h">>] >>

\* the range the formatter is asked for once the blank lines are left out
trimmedRangeOneLineOnly(t, start, end) ==
    LET firstNewline == {i \in 1..Len(t) : t[i] = "\n" /\ NewlinesBefore(t, i) = 1}
        lead == IF matchLeading(t) = 0 THEN 0 ELSE CHOOSE i \in firstNewline : TRUE
        trail == IF matchTrailing(t) = 0 THEN 0 ELSE Len(t) - LastNewlineBefore(t, Len(t)) + 1
    IN  [start |-> start + lead, end |-> end - trail]

trimmedRange(t, start, end) ==
    [start |-> start + matchLeading(t), end |-> end - matchTrailing(t)]

getFormattingEditsForRange(context, start, end, settings, enabled) ==
    LET doc == createVirtualDocument(context)
        trimmed == trimmedRange(context.text, start, end)
        range == toVsRange(context, trimmed.start, trimmed.end)
        edits == htmlFormat(doc, range, formatOptions(settings))
    IN  IF ~enabled
        THEN [op |-> "getFormattingEditsForRange", enabled |-> FALSE,
              start |-> start, end |-> end,
              engineCalls |-> <<>>, result |-> <<>>]
        ELSE IF trimmed.end <= trimmed.start
        THEN [op |-> "getFormattingEditsForRange", enabled |-> TRUE,
              start |-> start, end |-> end,
              engineCalls |-> <<>>, result |-> <<>>]
        ELSE [op |-> "getFormattingEditsForRange", enabled |-> TRUE,
              start |-> start, end |-> end,
              engineCalls |-> << [service |-> "htmlLanguageService",
                                  method |-> "format",
                                  document |-> doc,
                                  range |-> range,
                                  offsets |-> trimmed,
                                  options |-> formatOptions(settings)] >>,
              result |-> [i \in 1..Len(edits) |->
                             [span |-> toTsSpan(context, edits[i].range),
                              newText |-> edits[i].newText]]]

\* the host formats the whole fragment
GetFormattingEditsForRange ==
    \E enabled \in BOOLEAN, settings \in EditorSettings :
        /\ call' = getFormattingEditsForRange(CurrentContext, 0, Len(text), settings, enabled)
        /\ UNCHANGED hostVars
        /\ facadeUnchanged

\* the host formats any range of the fragment
GetFormattingEditsForAnyRange ==
    \E enabled \in BOOLEAN, settings \in EditorSettings,
       start \in 0..Len(text), end \in 0..Len(text) :
        /\ call' = getFormattingEditsForRange(CurrentContext, start, end, settings, enabled)
        /\ UNCHANGED hostVars
        /\ facadeUnchanged

----------------------------------------------------------------------------
(* Signature help, outlining, diagnostics, code fixes *)

GetSignatureHelpItemsAtPosition ==
    /\ call' = [op |-> "getSignatureHelpItemsAtPosition", engineCalls |-> <<>>,
                result |-> Undefined]
    /\ UNCHANGED hostVars
    /\ facadeUnchanged

\* htmlLanguageService.getFoldingRanges: the whole fragment when it has several
\* lines, with no start character
htmlGetFoldingRanges(document) ==
    LET n == Len(document.getText)
        last == positionAt(document, n)
    IN  IF last.line = 0 THEN <<>>
        ELSE << [startLine |-> 0, endLine |-> last.line, endCharacter |-> last.character] >>

\* range.startCharacter || 0
CharacterOr0(range, field) == IF field \in DOMAIN range THEN range[field] ELSE 0

translateOutliningSpan(context, range) ==
    LET startOffset == toOffset(context, [line |-> range.startLine,
                                          character |-> CharacterOr0(range, "startCharacter")])
        endOffset == toOffset(context, [line |-> range.endLine,
                                        character |-> CharacterOr0(range, "endCharacter")])
        span == [start |-> startOffset, length |-> endOffset - startOffset]
    IN  [autoCollapse |-> FALSE,
         kind |-> "Code",
         bannerText |-> "",
         textSpan |-> span,
         hintSpan |-> span]

GetOutliningSpans ==
    LET context == CurrentContext
        doc == createVirtualDocument(context)
        ranges == htmlGetFoldingRanges(doc)
    IN  /\ call' = [op |-> "getOutliningSpans",
                    engineCalls |-> << Invocation("htmlLanguageService", "getFoldingRanges", doc) >>,
                    result |-> [i \in 1..Len(ranges) |-> translateOutliningSpan(context, ranges[i])]]
        /\ UNCHANGED hostVars
        /\ facadeUnchanged

\* the styled-template service's answers: one diagnostic for each style character
StyleErrorCode == "css-lint"

styledGetSemanticDiagnostics(context) ==
    LET at == {i \in 1..Len(context.text) : context.text[i] = "c"}
    IN  {[code |-> StyleErrorCode, start |-> i - 1, length |-> 1] : i \in at}

styledGetCodeFixesAtPosition(context, start, end, errorCodes, format) ==
    IF StyleErrorCode \in errorCodes /\ start < end
    THEN << [description |-> "fix", start |-> start, end |-> end, tabSize |-> format.tabSize] >>
    ELSE <<>>

GetSemanticDiagnostics ==
    LET context == CurrentContext
    IN  /\ call' = [op |-> "getSemanticDiagnostics",
                    engineCalls |-> << StyledInvocation("getSemanticDiagnostics", context) >>,
                    result |-> styledGetSemanticDiagnostics(context)]
        /\ UNCHANGED hostVars
        /\ facadeUnchanged

GetSupportedCodeFixes ==
    /\ call' = [op |-> "getSupportedCodeFixes",
                engineCalls |-> << [service |-> "styledLanguageService",
                                    method |-> "getSupportedCodeFixes"] >>,
                result |-> <<StyleErrorCode>>]
    /\ UNCHANGED hostVars
    /\ facadeUnchanged

GetCodeFixesAtPosition ==
    \E errorCodes \in {{}, {StyleErrorCode}} :
        LET context == CurrentContext
            start == 0
            end == toOffset(context, position)
            settings == [tabSize |-> 4, convertTabsToSpaces |-> TRUE]
        IN  /\ call' = [op |-> "getCodeFixesAtPosition",
                        engineCalls |-> << StyledInvocation("getCodeFixesAtPosition", context) >>,
                        result |-> styledGetCodeFixesAtPosition(context, start, end,
                                                                errorCodes, settings)]
            /\ UNCHANGED hostVars
            /\ facadeUnchanged

----------------------------------------------------------------------------
(* Specifications *)

Next ==
    \/ HostInsertChar
    \/ HostDeleteChar
    \/ HostMoveCursor
    \/ HostSwitchFile
    \/ GetCompletionsAtPosition
    \/ GetCompletionEntryDetails
    \/ GetQuickInfoAtPosition
    \/ GetFormattingEditsForRange
    \/ GetSignatureHelpItemsAtPosition
    \/ GetOutliningSpans
    \/ GetSemanticDiagnostics
    \/ GetSupportedCodeFixes
    \/ GetCodeFixesAtPosition

\* the facade and its cache under an editing host
Spec == Init /\ [][Next]_vars

FreshFacade ==
    /\ cachedCompletionsFile = Undefined
    /\ cachedCompletionsPosition = Undefined
    /\ cachedCompletionsContent = Undefined
    /\ completions = Undefined
    /\ cssLanguageServiceCreated = FALSE
    /\ call = Idle
    /\ lastRequest = Undefined
    /\ lastComputation = Undefined

\* formatting, over every fragment of markup and whitespace
FormatChars == {"\n", " ", "h"}

InitFormat ==
    /\ fileName = "a.ts"
    /\ text \in SeqsUpTo(FormatChars, MaxFragmentLen)
    /\ position = [line |-> 0, character |-> 0]
    /\ FreshFacade

NextFormat == GetFormattingEditsForAnyRange

SpecFormat == InitFormat /\ [][NextFormat]_vars

\* quick info, over every fragment of markup, style and newlines and every cursor
QuickInfoChars == {"h", "c", "\n"}

InitQuickInfo ==
    /\ fileName = "a.ts"
    /\ text \in SeqsUpTo(QuickInfoChars, MaxFragmentLen)
    /\ position \in Positions(Context(fileName, text))
    /\ FreshFacade

NextQuickInfo == GetQuickInfoOfAnyShape

SpecQuickInfo == InitQuickInfo /\ [][NextQuickInfo]_vars

\* the kind translation, over every completion item an engine can hand over
CompletionItemKinds ==
    {"Text", "Method", "Function", "Constructor", "Field", "Variable", "Class",
     "Interface", "Module", "Property", "Unit", "Value", "Enum", "Keyword", "Snippet",
     "Color", "File", "Reference", "Folder", "EnumMember", "Constant", "Struct",
     "Event", "Operator", "TypeParameter"}

\* a kind outside the enumeration, the falsy number, and no kind at all
OtherKinds == {"99", "0", "undefined"}

EngineItems ==
    {[label |-> <<"a">>, kind |-> k, detail |-> d, documentation |-> m] :
        k \in CompletionItemKinds \cup OtherKinds,
        d \in {Undefined, Str(<<"d">>)},
        m \in {Undefined, Markup(<<"m">>)}}

InitKind ==
    /\ fileName = "a.ts"
    /\ text = <<>>
    /\ position = [line |-> 0, character |-> 0]
    /\ cachedCompletionsFile = Undefined
    /\ cachedCompletionsPosition = Undefined
    /\ cachedCompletionsContent = Undefined
    /\ completions = Undefined
    /\ cssLanguageServiceCreated = FALSE
    /\ call \in {[op |-> "doComplete", item |-> item] : item \in EngineItems}
    /\ lastRequest = Undefined
    /\ lastComputation = Undefined

TranslateCompetionEntry ==
    /\ call' = [op |-> "translateCompetionEntry",
                item |-> call.item,
                result |-> translateCompetionEntry(call.item)]
    /\ UNCHANGED hostVars
    /\ facadeUnchanged

TranslateCompletionItemsToCompletionEntryDetails ==
    /\ call' = [op |-> "translateCompletionItemsToCompletionEntryDetails",
                item |-> call.item,
                result |-> translateCompletionItemsToCompletionEntryDetails(call.item)]
    /\ UNCHANGED hostVars
    /\ facadeUnchanged

NextKind ==
    \/ TranslateCompetionEntry
    \/ TranslateCompletionItemsToCompletionEntryDetails

SpecKind == InitKind /\ [][NextKind]_vars

----------------------------------------------------------------------------
(* Properties *)

CompletionOps == {"getCompletionsAtPosition", "getCompletionEntryDetails"}

\* the arguments of the call just made: the host has not moved since
RequestKey == Key(CurrentContext, position)

\* the language the classifier gives for the arguments of the call just made
RequestLanguage == getLanguageAtPosition(createVirtualDocument(CurrentContext), position)

\* what the engine selected for the arguments of the call just made answers
EngineAnswer ==
    IF RequestLanguage = "html"
    THEN htmlDoComplete(createVirtualDocument(CurrentContext), position)
    ELSE IF RequestLanguage = "css"
    THEN cssDoComplete(createCssVirtualDocument(CurrentContext), position)
    ELSE Undefined

Invoked(service, method) ==
    \E i \in 1..Len(call.engineCalls) :
        call.engineCalls[i].service = service /\ call.engineCalls[i].method = method

ExplicitEmptyList == [isIncomplete |-> FALSE, items |-> <<>>]

\* C1: a completion request with the file, position and text of the previous
\* completion request uses that request's list and invokes neither the classifier
\* nor an engine; one that differs in any of the three invokes the classifier and
\* the engine of the region again and uses what they give.
C1_HitOnSameKeyMissOtherwise ==
    (call.op \in CompletionOps /\ call.previous # Undefined) =>
        IF call.previous.key = RequestKey
        THEN /\ call.engineCalls = <<>>
             /\ call.list = call.previous.list
        ELSE /\ Invoked("getDocumentRegions", "getLanguageAtPosition")
             /\ RequestLanguage = "html" => Invoked("htmlLanguageService", "doComplete")
             /\ RequestLanguage = "css" => Invoked("cssLanguageService", "doComplete")
             /\ call.list = IF EngineAnswer = Undefined THEN ExplicitEmptyList ELSE EngineAnswer

\* C1 witness: a request repeated with the same three keys, answered with entries
C1_Witness ==
    /\ call.op = "getCompletionEntryDetails"
    /\ call.previous # Undefined
    /\ call.previous.key = RequestKey
    /\ call.list.items # <<>>

\* C2: with deterministic engines every completion request returns what a facade
\* without the cache, computing afresh, returns for the same arguments.
C2_CacheIsCorrectnessNeutral ==
    call.op \in CompletionOps =>
        LET fresh == computeCompletionItems(CurrentContext, position).completions
        IN  call.result = IF call.op = "getCompletionsAtPosition"
                          THEN translateCompletionItemsToCompletionInfo(fresh)
                          ELSE entryDetailsOf(fresh, call.name)

\* C2 witness: a request answered from the cache after the host came back to a
\* text and position it had left
C2_Witness ==
    /\ call.op = "getCompletionsAtPosition"
    /\ call.engineCalls = <<>>
    /\ call.result.entries # <<>>
    /\ cssLanguageServiceCreated

\* C3: a completion request in a region that is neither html nor css yields the
\* list with isIncomplete false and no items, computed or cached, and so does a
\* computation whose engine answers nothing.
C3_EmptyListNeverUndefined ==
    call.op \in CompletionOps =>
        /\ call.list # Undefined
        /\ RequestLanguage \notin {"html", "css"} => call.list = ExplicitEmptyList
        /\ (call.engineCalls # <<>> /\ EngineAnswer = Undefined) => call.list = ExplicitEmptyList
        /\ (call.op = "getCompletionsAtPosition" /\ RequestLanguage \notin {"html", "css"})
               => call.result.entries = <<>>

\* C3 witness: a request in a script region answered from the cache
C3_Witness ==
    /\ call.op = "getCompletionsAtPosition"
    /\ RequestLanguage = "javascript"
    /\ call.engineCalls = <<>>
    /\ call.list = ExplicitEmptyList

\* C4: entry details for a name that is the label of no item of the list are the
\* record of that name with kind unknown, no kind modifiers and no documentation.
C4_UnknownDetailsForAbsentName ==
    (/\ call.op = "getCompletionEntryDetails"
     /\ \A i \in 1..Len(call.list.items) : call.list.items[i].label # call.name) =>
        /\ call.result # Undefined
        /\ call.result.name = call.name
        /\ call.result.kind = "unknown"
        /\ call.result.kindModifiers = ""
        /\ call.result.documentation = <<>>

\* C4 witness: details asked for a name that is none of the entries of a css list
\* held in the cache
C4_Witness ==
    /\ call.op = "getCompletionEntryDetails"
    /\ call.name = <<"?">>
    /\ call.list.items # <<>>
    /\ call.engineCalls = <<>>
    /\ RequestLanguage = "css"

\* the length of the all-whitespace line a fragment begins with, its newline
\* included; 0 when it begins with none
BlankLineAtStart(t) ==
    LET nl == {i \in 1..Len(t) : t[i] = "\n"}
        first == IF nl = {} THEN 0 ELSE CHOOSE i \in nl : \A j \in nl : i <= j
    IN  IF first > 0 /\ \A i \in 1..first : IsWhitespace(t[i]) THEN first ELSE 0

\* the length of the all-whitespace line a fragment ends with, from its newline
\* on; 0 when it ends with none
BlankLineAtEnd(t) ==
    LET nl == {i \in 1..Len(t) : t[i] = "\n"}
        last == IF nl = {} THEN 0 ELSE CHOOSE i \in nl : \A j \in nl : j <= i
    IN  IF last > 0 /\ \A i \in last..Len(t) : IsWhitespace(t[i]) THEN Len(t) - last + 1 ELSE 0

RECURSIVE BlankLinesAtStart(_)
BlankLinesAtStart(t) ==
    LET n == BlankLineAtStart(t)
    IN  IF n = 0 THEN 0 ELSE n + BlankLinesAtStart(SubSeq(t, n + 1, Len(t)))

RECURSIVE BlankLinesAtEnd(_)
BlankLinesAtEnd(t) ==
    LET n == BlankLineAtEnd(t)
    IN  IF n = 0 THEN 0 ELSE n + BlankLinesAtEnd(SubSeq(t, 1, Len(t) - n))

\* formatting, enabled, asks the engine for exactly [from, to), or for nothing
\* and returns no edit when to <= from
FormatsExactly(from, to) ==
    IF to <= from
    THEN call.engineCalls = <<>> /\ call.result = <<>>
    ELSE /\ Len(call.engineCalls) = 1
         /\ call.engineCalls[1].method = "format"
         /\ call.engineCalls[1].range = [start |-> toPosition(CurrentContext, from),
                                         end |-> toPosition(CurrentContext, to)]

\* C5 as stated: the range formatted is the requested one less one leading and one
\* trailing all-whitespace line.
C5_Original_OneBlankLineEachSide ==
    (call.op = "getFormattingEditsForRange" /\ call.enabled) =>
        FormatsExactly(call.start + BlankLineAtStart(text), call.end - BlankLineAtEnd(text))

\* C5 amended: the range formatted is the requested one less every leading and every
\* trailing all-whitespace line of the fragment; when that leaves end <= start no
\* edit is returned and the engine is not invoked.
C5_EveryBlankLineEachSide ==
    (call.op = "getFormattingEditsForRange" /\ call.enabled) =>
        FormatsExactly(call.start + BlankLinesAtStart(text), call.end - BlankLinesAtEnd(text))

\* C5 witness: the whole of a fragment with two blank lines before its markup is
\* formatted
C5_Witness ==
    /\ call.op = "getFormattingEditsForRange"
    /\ call.enabled
    /\ text = <<"\n", "\n", "h">>
    /\ call.start = 0
    /\ call.end = 3
    /\ call.engineCalls # <<>>

\* a value less the style tag line and the indentation it begins with
WithoutStylePrefix(v) ==
    IF Len(v) >= 3 /\ v[1] \in StyleTags /\ v[2] = "\n" /\ IsWhitespace(v[3])
    THEN SubSeq(v, SkipWhitespace(v, 3), Len(v))
    ELSE v

\* the values of the rich-text blocks of hover contents, in order
RECURSIVE MarkupValues(_)
MarkupValues(contents) ==
    IF contents.type = "string" THEN <<>>
    ELSE IF contents.type = "markup" THEN <<contents.value>>
    ELSE IF contents.parts = <<>> THEN <<>>
    ELSE MarkupValues(Head(contents.parts))
         \o MarkupValues([type |-> "array", parts |-> Tail(contents.parts)])

\* C6: quick info at a css position shows the engine's value less the style tag
\* line and its indentation; at an html position it shows the value unchanged.
C6_CssHoverIsCleaned ==
    (call.op = "getQuickInfoAtPosition" /\ call.result # Undefined) =>
        IF RequestLanguage = "css"
        THEN \A i \in 1..Len(call.result.displayParts) :
                 call.result.displayParts[i].text
                     = WithoutStylePrefix(call.answer.displayParts[i].text)
        ELSE [i \in 1..Len(call.result.displayParts) |-> call.result.displayParts[i].text]
                 = MarkupValues(call.answer.contents)

\* the html half of C6 alone: an html hover value is shown unchanged
C6_HtmlHoverIsUnchanged ==
    (call.op = "getQuickInfoAtPosition" /\ call.result # Undefined
        /\ RequestLanguage = "html") =>
        [i \in 1..Len(call.result.displayParts) |-> call.result.displayParts[i].text]
            = MarkupValues(call.answer.contents)

HtmlHoverAnswered ==
    /\ call.op = "getQuickInfoAtPosition"
    /\ call.languageId = "html"
    /\ call.answer # Undefined

SpanAsReported ==
    LET span == call.result.textSpan
        range == call.answer.range
    IN  IF range # Undefined
        THEN /\ span.start = toOffset(CurrentContext, range.start)
             /\ span.length = toOffset(CurrentContext, range.end) - span.start
        ELSE /\ span.start = toOffset(CurrentContext, position)
             /\ span.length = 1

SpanInsideFragment ==
    LET span == call.result.textSpan
    IN  0 <= span.start /\ span.start + span.length <= Len(text)

\* C7 as stated: the span of an html hover is that of the reported range, or one
\* character at the query position; it is never negative and lies inside the
\* fragment.
C7_Original_SpanInsideFragment ==
    HtmlHoverAnswered =>
        /\ SpanAsReported
        /\ call.result.textSpan.length >= 0
        /\ SpanInsideFragment

\* C7 amended: the span of an html hover is that of the reported range, or one
\* character at the query position; it is never negative, and it lies inside the
\* fragment when a range is reported or the query position is before the end of
\* the fragment; with no range and the query position at the end it reaches one
\* character past the fragment.
C7_SpanOfHover ==
    HtmlHoverAnswered =>
        /\ SpanAsReported
        /\ call.result.textSpan.length >= 0
        /\ (call.answer.range # Undefined \/ toOffset(CurrentContext, position) < Len(text))
               => SpanInsideFragment
        /\ (call.answer.range = Undefined /\ toOffset(CurrentContext, position) = Len(text))
               => call.result.textSpan.start + call.result.textSpan.length = Len(text) + 1

\* C7 witness: a hover on the second line of a fragment with a range that ends
\* after the cursor
C7_Witness ==
    /\ HtmlHoverAnswered
    /\ call.answer.range # Undefined
    /\ position.line = 1
    /\ call.result.textSpan.start >= 1
    /\ call.result.textSpan.length >= 2

\* the host kind of an engine's completion item kind, as tabulated
KindTable ==
    [k \in CompletionItemKinds \cup OtherKinds |->
        IF k = "Method" THEN "memberFunctionElement"
        ELSE IF k = "Function" THEN "functionElement"
        ELSE IF k = "Constructor" THEN "constructorImplementationElement"
        ELSE IF k \in {"Field", "Variable"} THEN "variableElement"
        ELSE IF k = "Class" THEN "classElement"
        ELSE IF k = "Interface" THEN "interfaceElement"
        ELSE IF k \in {"Module", "File"} THEN "moduleElement"
        ELSE IF k = "Property" THEN "memberVariableElement"
        ELSE IF k \in {"Unit", "Value", "Color"} THEN "constElement"
        ELSE IF k = "Enum" THEN "enumElement"
        ELSE IF k = "Keyword" THEN "keyword"
        ELSE IF k = "Reference" THEN "alias"
        ELSE "unknown"]

\* C8: the completion entry and the completion details of an item both carry the
\* kind the table gives for the item's kind, unknown for every kind the table does
\* not name, for a value that is no kind and for an item with no kind.
C8_KindTranslationIsTheTable ==
    call.op \in {"translateCompetionEntry", "translateCompletionItemsToCompletionEntryDetails"} =>
        /\ call.result.kind = KindTable[call.item.kind]
        /\ call.result.kind = translateCompetionEntry(call.item).kind
        /\ call.result.kind = translateCompletionItemsToCompletionEntryDetails(call.item).kind

\* C8 witness: the details of a color item
C8_Witness ==
    /\ call.op = "translateCompletionItemsToCompletionEntryDetails"
    /\ call.item.kind = "Color"
    /\ call.result.kind = "constElement"

\* the cache holds the key and the list of the last computation, or nothing
\* before the first
CacheIsLastComputation ==
    IF lastComputation = Undefined
    THEN /\ cachedCompletionsFile = Undefined
         /\ cachedCompletionsPosition = Undefined
         /\ cachedCompletionsContent = Undefined
         /\ completions = Undefined
    ELSE /\ cachedCompletionsFile = Str(lastComputation.key.file)
         /\ cachedCompletionsPosition = lastComputation.key.position
         /\ cachedCompletionsContent = Str(lastComputation.key.content)
         /\ completions = lastComputation.list

\* only a completion request that computes writes the cache, and nothing clears it
CacheWrittenOnlyByComputation ==
    /\ (call'.op \in CompletionOps /\ call'.engineCalls # <<>>) \/ UNCHANGED cacheVars
    /\ completions # Undefined => completions' # Undefined

\* C9: the cache holds one entry, the key and list of the most recent completion
\* computation, an empty list included; a cache hit and every other operation
\* leave its four fields unchanged, and nothing clears it.
C9_SingleSlotHoldsLastComputation ==
    [](CacheIsLastComputation) /\ [][CacheWrittenOnlyByComputation]_vars

\* C9 witness: quick info asked while the cache holds the empty list of the last
\* computation
C9_Witness ==
    /\ call.op = "getQuickInfoAtPosition"
    /\ lastComputation # Undefined
    /\ lastComputation.list = ExplicitEmptyList
    /\ completions = ExplicitEmptyList
    /\ lastComputation.key # RequestKey

\* C10: every document handed to the classifier, the HTML engine or the CSS engine
\* holds the text of the call's own context and converts with that context's
\* toPosition and toOffset.
C10_DocumentsAreOfTheCall ==
    call.op # "idle" =>
        \A i \in 1..Len(call.engineCalls) :
            "document" \in DOMAIN call.engineCalls[i] =>
                /\ call.engineCalls[i].document.getText = text
                /\ call.engineCalls[i].document.positionAt.captured = CurrentContext
                /\ call.engineCalls[i].document.offsetAt.captured = CurrentContext

\* C10 witness: the CSS engine asked for completions after the text changed since
\* the last completion request
C10_Witness ==
    /\ call.op = "getCompletionsAtPosition"
    /\ call.previous # Undefined
    /\ call.previous.key.content # text
    /\ Invoked("cssLanguageService", "doComplete")

====
